---- MODULE Spec2Model ----
(***************************************************************************)
(* Model of cfp_crawler/main.py: the WikiCFP crawler that resolves the     *)
(* number of result pages, scrapes each listing page, extracts every       *)
(* detail page, scores it with the LLM chain and saves the relevant        *)
(* conferences to a CSV file after each page.                              *)
(*                                                                         *)
(* Text is modelled as a sequence of one-character strings, so that        *)
(* str.strip, str.lower, the "in" substring test, the page-count regular   *)
(* expression and int() are computed, not assumed.  An HTML element is     *)
(* modelled by the sequence of its text nodes, which is what               *)
(* BeautifulSoup's get_text works on.                                      *)
(***************************************************************************)
EXTENDS Integers, Sequences, FiniteSets, TLC

VARIABLES pc, file, file0, total_pages, page, detail_urls, evaluated_results,
          response, cfp, evaluation, snapshot, trace, qualifying, phrase

vars == <<pc, file, file0, total_pages, page, detail_urls, evaluated_results,
          response, cfp, evaluation, snapshot, trace, qualifying, phrase>>

(***************************************************************************)
(* Bounds of the model.                                                    *)
(***************************************************************************)
MaxPages == 2

MaxAnchors == 2

MaxRows == 2

\* Most detail links the site shows over the pages of one run.
MaxItems == 3

(***************************************************************************)
(* Text helpers (Python str semantics).                                    *)
(***************************************************************************)
Whitespace == {" ", "\n"}

DigitChars == {"0", "1", "2", "3", "4", "5", "6", "7", "8", "9"}

RECURSIVE LStrip(_)
LStrip(s) ==
  IF s = <<>> THEN <<>>
  ELSE IF Head(s) \in Whitespace THEN LStrip(Tail(s)) ELSE s

RECURSIVE RStrip(_)
RStrip(s) ==
  IF s = <<>> THEN <<>>
  ELSE IF s[Len(s)] \in Whitespace THEN RStrip(SubSeq(s, 1, Len(s) - 1)) ELSE s

Strip(s) == RStrip(LStrip(s))

LowerChar(c) ==
  CASE c = "W" -> "w"
    [] c = "H" -> "h"
    [] c = "E" -> "e"
    [] c = "N" -> "n"
    [] c = "R" -> "r"
    [] c = "S" -> "s"
    [] c = "D" -> "d"
    [] OTHER -> c

Lower(s) == [i \in 1..Len(s) |-> LowerChar(s[i])]

StartsAt(sub, s, i) ==
  /\ i >= 1
  /\ i + Len(sub) - 1 <= Len(s)
  /\ SubSeq(s, i, i + Len(sub) - 1) = sub

Contains(sub, s) == \E i \in 1..(Len(s) + 1) : StartsAt(sub, s, i)

\* Tag.get_text(strip=True): every text node stripped, the empty ones
\* dropped, the rest joined with no separator.
RECURSIVE GetTextStrip(_)
GetTextStrip(strings) ==
  IF strings = <<>> THEN <<>>
  ELSE Strip(Head(strings)) \o GetTextStrip(Tail(strings))

\* Tag.get_text(separator="\n"): the text nodes joined by a newline.
RECURSIVE GetTextSep(_)
GetTextSep(strings) ==
  IF strings = <<>> THEN <<>>
  ELSE IF Len(strings) = 1 THEN Head(strings)
  ELSE Head(strings) \o <<"\n">> \o GetTextSep(Tail(strings))

NA == <<"N", "/", "A">>

STotalOf == <<"T", "o", "t", "a", "l", " ", "o", "f">>

SCFPsIn == <<"C", "F", "P", "s", " ", "i", "n">>

SPages == <<"p", "a", "g", "e", "s">>

SWhen == <<"w", "h", "e", "n">>

SWhere == <<"w", "h", "e", "r", "e">>

SSubmissionDeadline ==
  <<"s", "u", "b", "m", "i", "s", "s", "i", "o", "n", " ",
    "d", "e", "a", "d", "l", "i", "n", "e">>

(***************************************************************************)
(* parse_cfp_detail_page: the extraction from a fetched detail page.       *)
(* A page body is [title, acronym, tables, div]; an element is             *)
(* [present, strings]; the v:summary span is [present, has_content,        *)
(* content]; a table is a sequence of rows [th, td].                       *)
(***************************************************************************)
Absent == [present |-> FALSE, strings |-> <<>>]

Elem(strings) == [present |-> TRUE, strings |-> strings]

NoSpan == [present |-> FALSE, has_content |-> FALSE, content |-> <<>>]

SpanNoAttr == [present |-> TRUE, has_content |-> FALSE, content |-> <<>>]

SpanAttr(c) == [present |-> TRUE, has_content |-> TRUE, content |-> c]

ExtractTitle(body) ==
  IF body.title.present THEN GetTextStrip(body.title.strings) ELSE NA

ExtractAcronym(body) ==
  IF body.acronym.present /\ body.acronym.has_content
  THEN Strip(body.acronym.content) ELSE NA

\* One iteration of "for row in rows" on the triple <<when, where, deadline>>.
RowStep(acc, row) ==
  IF row.th.present /\ row.td.present
  THEN LET header_text == Lower(GetTextStrip(row.th.strings))
           cell_text == GetTextStrip(row.td.strings)
       IN  IF Contains(SWhen, header_text) THEN <<cell_text, acc[2], acc[3]>>
           ELSE IF Contains(SWhere, header_text) THEN <<acc[1], cell_text, acc[3]>>
           ELSE IF Contains(SSubmissionDeadline, header_text)
                THEN <<acc[1], acc[2], cell_text>>
           ELSE acc
  ELSE acc

RECURSIVE RowsLoop(_, _)
RowsLoop(acc, rows) ==
  IF rows = <<>> THEN acc ELSE RowsLoop(RowStep(acc, Head(rows)), Tail(rows))

RECURSIVE TablesLoop(_, _)
TablesLoop(acc, tables) ==
  IF tables = <<>> THEN acc
  ELSE TablesLoop(RowsLoop(acc, Head(tables)), Tail(tables))

ExtractDescription(body) ==
  IF body.div.present THEN Strip(GetTextSep(body.div.strings)) ELSE NA

parse_cfp_detail_page(body) ==
  LET wwd == TablesLoop(<<NA, NA, NA>>, body.tables)
  IN  [title |-> ExtractTitle(body),
       acronym |-> ExtractAcronym(body),
       when |-> wwd[1],
       where |-> wwd[2],
       deadline |-> wwd[3],
       description |-> ExtractDescription(body)]

(***************************************************************************)
(* get_total_pages: the page count read from the centred table cells of    *)
(* the search response with                                                *)
(*   re.search(r"Total of\s+\d+\s+CFPs in\s+(\d+)\s+pages", text).         *)
(***************************************************************************)
RECURSIVE SpanEnd(_, _, _)
\* First index at or after i whose character is not in class.
SpanEnd(s, i, class) ==
  IF i > Len(s) THEN i
  ELSE IF s[i] \in class THEN SpanEnd(s, i + 1, class) ELSE i

\* The regular expression anchored at i: the text of group 1, or <<>> when
\* it does not match there.  The character classes and the literals are
\* disjoint, so the greedy match is the only one.
RegexAt(text, i) ==
  LET a == i + Len(STotalOf)
      b == SpanEnd(text, a, Whitespace)
      c == SpanEnd(text, b, DigitChars)
      d == SpanEnd(text, c, Whitespace)
      e == d + Len(SCFPsIn)
      f == SpanEnd(text, e, Whitespace)
      g == SpanEnd(text, f, DigitChars)
      h == SpanEnd(text, g, Whitespace)
  IN  IF /\ StartsAt(STotalOf, text, i)
         /\ b > a /\ c > b /\ d > c
         /\ StartsAt(SCFPsIn, text, d)
         /\ f > e /\ g > f /\ h > g
         /\ StartsAt(SPages, text, h)
      THEN SubSeq(text, f, g - 1)
      ELSE <<>>

\* re.search: group 1 of the leftmost match, or <<>> when there is none.
RegexSearch(text) ==
  LET hits == {i \in 1..Len(text) : RegexAt(text, i) # <<>>}
  IN  IF hits = {} THEN <<>>
      ELSE RegexAt(text, CHOOSE i \in hits : \A j \in hits : i <= j)

DigitValue(c) ==
  CASE c = "0" -> 0 [] c = "1" -> 1 [] c = "2" -> 2 [] c = "3" -> 3
    [] c = "4" -> 4 [] c = "5" -> 5 [] c = "6" -> 6 [] c = "7" -> 7
    [] c = "8" -> 8 [] c = "9" -> 9

RECURSIVE ParseInt(_)
\* int() of a string of decimal digits.
ParseInt(ds) ==
  IF ds = <<>> THEN 0
  ELSE ParseInt(SubSeq(ds, 1, Len(ds) - 1)) * 10 + DigitValue(ds[Len(ds)])

DefaultPages == 1

RECURSIVE get_total_pages(_)
\* tds: the <td align="center"> cells in document order.  The result is
\* [pages, warned]: warned is the logger.warning of the default.
get_total_pages(tds) ==
  IF tds = <<>> THEN [pages |-> DefaultPages, warned |-> TRUE]
  ELSE LET text == GetTextStrip(Head(tds).strings)
           m == RegexSearch(text)
       IN  IF Contains(STotalOf, text) /\ m # <<>>
           THEN [pages |-> ParseInt(m), warned |-> FALSE]
           ELSE get_total_pages(Tail(tds))

(***************************************************************************)
(* search_wikicfp_page: the set of detail URLs of the anchors whose href   *)
(* holds "event.showcfp".  An href is kept whole; "" is an anchor with no  *)
(* href.                                                                   *)
(***************************************************************************)
base_url == "http://www.wikicfp.com"

DetailHrefs ==
  {"/cfp/servlet/event.showcfp?eventid=1", "/cfp/servlet/event.showcfp?eventid=2"}

Hrefs == DetailHrefs \cup {"", "/cfp/home"}

IsDetailLink(href) == href # "" /\ href \in DetailHrefs

search_wikicfp_page(anchors) ==
  {<<base_url, anchors[i]>> : i \in {j \in 1..Len(anchors) : IsDetailLink(anchors[j])}}

(***************************************************************************)
(* The record appended by main and DataFrame(...).to_csv(index=False).     *)
(* A file is [exists, header, rows]; a row is the tuple of its cells in    *)
(* column order.                                                           *)
(***************************************************************************)
Columns ==
  <<"Title", "Acronym", "When", "Where", "Deadline", "Score", "Justification">>

MatchRecord(c, ev) ==
  [Title |-> c.title, Acronym |-> c.acronym, When |-> c.when,
   Where |-> c.where, Deadline |-> c.deadline,
   Score |-> ev.score, Justification |-> ev.justification]

CsvRow(r) ==
  <<r.Title, r.Acronym, r.When, r.Where, r.Deadline, r.Score, r.Justification>>

to_csv(results) ==
  [exists |-> TRUE, header |-> Columns,
   rows |-> [i \in 1..Len(results) |-> CsvRow(results[i])]]

NoFile == [exists |-> FALSE, header |-> <<>>, rows |-> <<>>]

AcceptsFromFive(score) == score >= 5

\* "if evaluation.score > 5"
Accepts(score) == score > 5

ShouldSaveAlways(results) == TRUE

ShouldSaveSeveral(results) == Len(results) > 1

\* "if evaluated_results": the truth value of a list.
ShouldSave(results) == results # <<>>

(***************************************************************************)
(* Inputs: what the environment (file system, WikiCFP, the LLM) can        *)
(* answer.                                                                 *)
(***************************************************************************)
DigitChar(d) ==
  CASE d = 0 -> "0" [] d = 1 -> "1" [] d = 2 -> "2" [] d = 3 -> "3"
    [] d = 4 -> "4" [] d = 5 -> "5" [] d = 6 -> "6" [] d = 7 -> "7"
    [] d = 8 -> "8" [] d = 9 -> "9"

RECURSIVE Digits(_)
Digits(n) ==
  IF n < 10 THEN <<DigitChar(n)>>
  ELSE Digits(n \div 10) \o <<DigitChar(n % 10)>>

\* A centred cell of the search response: the page-count phrase for p
\* pages, a cell that says "Total of" without the phrase, or another cell.
TdKinds ==
  {[kind |-> "phrase", p |-> p] : p \in 0..MaxPages}
    \cup {[kind |-> "noise", p |-> 0], [kind |-> "other", p |-> 0]}

TdOf(k) ==
  IF k.kind = "phrase"
  THEN Elem(<< <<"\n", " ">> \o STotalOf \o <<" ">> \o Digits(23) \o <<" ">>
               \o SCFPsIn \o <<" ">> \o Digits(k.p) \o <<" ">> \o SPages
               \o <<"\n">> >>)
  ELSE IF k.kind = "noise"
  THEN Elem(<< STotalOf \o <<" ">> \o Digits(7) \o <<" ">> \o SCFPsIn >>)
  ELSE Elem(<< <<"H", "o", "m", "e">> >>)

SearchResponses ==
  {<<>>} \cup {<<k>> : k \in TdKinds} \cup {<<k, l>> : k \in TdKinds, l \in TdKinds}

\* The P of the phrase the response shows, -1 when it shows none.
PhraseOf(kinds) ==
  LET at == {i \in 1..Len(kinds) : kinds[i].kind = "phrase"}
  IN  IF at = {} THEN -1
      ELSE kinds[CHOOSE i \in at : \A j \in at : i <= j].p

RECURSIVE SeqsUpTo(_, _)
SeqsUpTo(S, n) ==
  IF n = 0 THEN {<<>>}
  ELSE LET shorter == SeqsUpTo(S, n - 1)
       IN  shorter \cup {Append(q, x) : q \in shorter, x \in S}

ListingResponses == SeqsUpTo(Hrefs, MaxAnchors)

SQC == <<"Q", "C">>

FullBody ==
  [title |-> Elem(<< <<" ">> \o SQC >>),
   acronym |-> SpanAttr(<<"Q">>),
   tables |-> << << [th |-> Elem(<< <<"W", "h", "e", "n">> >>),
                     td |-> Elem(<< <<"2", "7">> >>)],
                    [th |-> Elem(<< <<"W", "h", "e", "r", "e">> >>),
                     td |-> Elem(<< <<"R", "o", "m", "e">> >>)],
                    [th |-> Elem(<< <<"S", "u", "b", "m", "i", "s", "s", "i", "o", "n",
                                      " ", "D", "e", "a", "d", "l", "i", "n", "e">> >>),
                     td |-> Elem(<< <<"J", "a", "n">> >>)] >> >>,
   div |-> Elem(<< <<"a">>, <<"b", " ">> >>)]

ErrorBody == [title |-> Absent, acronym |-> NoSpan, tables |-> <<>>, div |-> Absent]

HttpOk == "200 OK"

HttpNotFound == "404 Not Found"

\* What requests.get(url) returns for a detail page when it returns.
DetailResponses ==
  {[status |-> HttpOk, body |-> FullBody],
   [status |-> HttpNotFound, body |-> ErrorBody]}

\* The scores the chain can return: CFPMatchResult.score is any int.
ScoreValues == {5, 6, 11}

SJustification == <<"o", "k">>

Evaluations == {[score |-> v, justification |-> SJustification] : v \in ScoreValues}

UnsetCfp ==
  [title |-> <<>>, acronym |-> <<>>, when |-> <<>>, where |-> <<>>,
   deadline |-> <<>>, description |-> <<>>]

UnsetEvaluation == [score |-> 0, justification |-> <<>>]

\* No response: before the first detail request, and when it raised.
UnsetResponse == [status |-> "", body |-> ErrorBody]

\* A file left at the output path by an earlier run.
StaleFile ==
  [exists |-> TRUE, header |-> Columns,
   rows |-> << <<SQC, SQC, SQC, SQC, SQC, 7, SJustification>>,
               <<SQC, SQC, SQC, SQC, SQC, 8, SJustification>> >>]

\* One observable step of the run: a request, a scoring call, a log line of
\* level error or warning, the save step of a page, a write of the file.
\* n is the number of detail URLs a listing gave, -1 for a request that
\* raised, 0 otherwise.
EventN(e, p, k) == [ev |-> e, page |-> p, n |-> k]

Event(e, p) == EventN(e, p, 0)

\* The request or call e raised.
RaisedEvent(e, p) == EventN(e, p, -1)

\* The positions of the events e of the trace t.
EventsOf(t, e) == {i \in 1..Len(t) : t[i].ev = e}

(***************************************************************************)
(* main                                                                    *)
(***************************************************************************)
Init ==
  /\ pc = "read_abstract"
  /\ file0 \in {NoFile, StaleFile}
  /\ file = file0
  /\ total_pages = 0
  /\ page = 0
  /\ detail_urls = {}
  /\ evaluated_results = <<>>
  /\ response = UnsetResponse
  /\ cfp = UnsetCfp
  /\ evaluation = UnsetEvaluation
  /\ snapshot = <<>>
  /\ trace = <<>>
  /\ qualifying = 0
  /\ phrase = -1

PageRangeShort(total) == 1..(total - 1)

\* "range(1, total_pages + 1)"
PageRange(total) == 1..total

ReadFailureGoesOn == "get_total_pages"

\* Where main goes when open()/read() of the abstract raises: "return".
ReadFailurePc == "returned"

ItemErrorAborts == "aborted"

\* Where main goes when an exception leaves the try of one URL: the except
\* clause logs it and the for loop goes on.
ItemErrorPc == "url_loop"

ListingFailureSkipsPage == "page_loop"

\* Where main goes when search_wikicfp_page raises: nothing catches it.
ListingFailurePc == "aborted"

\* Lines 196-201.
ReadAbstractOk ==
  /\ pc = "read_abstract"
  /\ pc' = "get_total_pages"
  /\ UNCHANGED <<file, file0, total_pages, page, detail_urls, evaluated_results,
                 response, cfp, evaluation, snapshot, trace, qualifying, phrase>>

ReadAbstractFails ==
  /\ pc = "read_abstract"
  /\ pc' = ReadFailurePc
  /\ trace' = Append(trace, Event("log_error", 0))
  /\ UNCHANGED <<file, file0, total_pages, page, detail_urls, evaluated_results,
                 response, cfp, evaluation, snapshot, qualifying, phrase>>

\* Lines 204-205, requests.get returning.
ResolvePages ==
  /\ pc = "get_total_pages"
  /\ \E kinds \in SearchResponses :
       LET r == get_total_pages([i \in 1..Len(kinds) |-> TdOf(kinds[i])])
       IN  /\ total_pages' = r.pages
           /\ phrase' = PhraseOf(kinds)
           /\ trace' = IF r.warned
                       THEN trace \o <<Event("get_total_pages", 0), Event("log_warning", 0)>>
                       ELSE Append(trace, Event("get_total_pages", 0))
  /\ evaluated_results' = <<>>
  /\ pc' = "page_loop"
  /\ UNCHANGED <<file, file0, page, detail_urls, response, cfp, evaluation,
                 snapshot, qualifying>>

\* Line 204, requests.get raising: the exception leaves main.
ResolvePagesFails ==
  /\ pc = "get_total_pages"
  /\ trace' = Append(trace, RaisedEvent("get_total_pages", 0))
  /\ pc' = "aborted"
  /\ UNCHANGED <<file, file0, total_pages, page, detail_urls, evaluated_results,
                 response, cfp, evaluation, snapshot, qualifying, phrase>>

\* Lines 208-209: the next page of range(1, total_pages + 1) and its listing.
NextPage ==
  /\ pc = "page_loop"
  /\ (page + 1) \in PageRange(total_pages)
  /\ page' = page + 1
  /\ \E anchors \in ListingResponses :
       /\ detail_urls' = search_wikicfp_page(anchors)
       /\ Cardinality(EventsOf(trace, "detail")) + Cardinality(detail_urls') <= MaxItems
  /\ trace' = Append(trace, EventN("listing", page', Cardinality(detail_urls')))
  /\ pc' = "url_loop"
  /\ UNCHANGED <<file, file0, total_pages, evaluated_results, response, cfp,
                 evaluation, snapshot, qualifying, phrase>>

\* Line 209, requests.get raising.
NextPageFails ==
  /\ pc = "page_loop"
  /\ (page + 1) \in PageRange(total_pages)
  /\ page' = page + 1
  /\ trace' = Append(trace, RaisedEvent("listing", page'))
  /\ pc' = ListingFailurePc
  /\ UNCHANGED <<file, file0, total_pages, detail_urls, evaluated_results,
                 response, cfp, evaluation, snapshot, qualifying, phrase>>

\* Line 208: the range is exhausted.
PagesExhausted ==
  /\ pc = "page_loop"
  /\ (page + 1) \notin PageRange(total_pages)
  /\ pc' = "final"
  /\ UNCHANGED <<file, file0, total_pages, page, detail_urls, evaluated_results,
                 response, cfp, evaluation, snapshot, trace, qualifying, phrase>>

\* Lines 211-237, requests.get(url) raising inside parse_cfp_detail_page.
ItemFetchFails ==
  /\ pc = "url_loop"
  /\ \E url \in detail_urls : detail_urls' = detail_urls \ {url}
  /\ response' = UnsetResponse
  /\ trace' = trace \o <<RaisedEvent("detail", page), Event("log_error", page)>>
  /\ pc' = ItemErrorPc
  /\ UNCHANGED <<file, file0, total_pages, page, evaluated_results,
                 cfp, evaluation, snapshot, qualifying, phrase>>

\* Lines 211-237, chain_evaluate.invoke raising (scorer error, or an answer
\* that is not a CFPMatchResult).
ItemScoreFails ==
  /\ pc = "url_loop"
  /\ \E url \in detail_urls : detail_urls' = detail_urls \ {url}
  /\ \E resp \in DetailResponses :
       /\ response' = resp
       /\ cfp' = parse_cfp_detail_page(resp.body)
  /\ trace' = trace \o <<Event("detail", page), RaisedEvent("score", page),
                         Event("log_error", page)>>
  /\ pc' = ItemErrorPc
  /\ UNCHANGED <<file, file0, total_pages, page, evaluated_results,
                 evaluation, snapshot, qualifying, phrase>>

\* Lines 211-235: the page is fetched and parsed, the chain answers.
ItemScored ==
  /\ pc = "url_loop"
  /\ \E url \in detail_urls : detail_urls' = detail_urls \ {url}
  /\ \E resp \in DetailResponses, ans \in Evaluations :
       /\ response' = resp
       /\ cfp' = parse_cfp_detail_page(resp.body)
       /\ evaluation' = ans
       /\ qualifying' = IF ans.score > 5 THEN qualifying + 1 ELSE qualifying
       /\ evaluated_results' =
            IF Accepts(ans.score)
            THEN Append(evaluated_results, MatchRecord(cfp', ans))
            ELSE evaluated_results
  /\ trace' = trace \o <<Event("detail", page), Event("score", page)>>
  /\ pc' = "url_loop"
  /\ UNCHANGED <<file, file0, total_pages, page, snapshot, phrase>>

\* Lines 238-242: the URLs of the page are exhausted, the intermediate save.
FlushPage ==
  /\ pc = "url_loop"
  /\ detail_urls = {}
  /\ IF ShouldSave(evaluated_results)
     THEN /\ file' = to_csv(evaluated_results)
          /\ trace' = trace \o <<Event("flush", page), Event("write", page)>>
     ELSE /\ file' = file
          /\ trace' = Append(trace, Event("flush", page))
  /\ snapshot' = evaluated_results
  /\ pc' = "page_loop"
  /\ UNCHANGED <<file0, total_pages, page, detail_urls, evaluated_results,
                 response, cfp, evaluation, qualifying, phrase>>

\* Lines 244-249: the final save, or the warning.
FinalFlush ==
  /\ pc = "final"
  /\ IF ShouldSave(evaluated_results)
     THEN /\ file' = to_csv(evaluated_results)
          /\ trace' = Append(trace, Event("write", 0))
     ELSE /\ file' = file
          /\ trace' = Append(trace, Event("log_warning", 0))
  /\ snapshot' = evaluated_results
  /\ pc' = "done"
  /\ UNCHANGED <<file0, total_pages, page, detail_urls, evaluated_results,
                 response, cfp, evaluation, qualifying, phrase>>

Next ==
  \/ ReadAbstractOk
  \/ ReadAbstractFails
  \/ ResolvePages
  \/ ResolvePagesFails
  \/ NextPage
  \/ NextPageFails
  \/ PagesExhausted
  \/ ItemFetchFails
  \/ ItemScoreFails
  \/ ItemScored
  \/ FlushPage
  \/ FinalFlush

Spec == Init /\ [][Next]_vars

(***************************************************************************)
(* parse_cfp_detail_page on its own: every detail page of the bounded set  *)
(* below is parsed once.                                                   *)
(***************************************************************************)
TitleElems == {Absent, Elem(<<>>), Elem(<< <<" ">> >>), Elem(<< <<" ">> \o SQC >>)}

AcronymSpans == {NoSpan, SpanNoAttr, SpanAttr(<<" ">>), SpanAttr(<<"Q">>)}

HeaderElems ==
  {Absent,
   Elem(<< <<"W", "h", "e", "n">> >>),
   Elem(<< <<"W", "h", "e", "r", "e">> >>),
   Elem(<< <<"S", "u", "b", "m", "i", "s", "s", "i", "o", "n",
             " ", "D", "e", "a", "d", "l", "i", "n", "e">> >>)}

CellElems == {Absent, Elem(<<>>), Elem(<< <<"2", "7">> >>)}

RowSet == {[th |-> h, td |-> c] : h \in HeaderElems, c \in CellElems}

TableSets == {<<>>} \cup {<<rows>> : rows \in SeqsUpTo(RowSet, MaxRows) \ {<<>>}}

DivElems == {Absent, Elem(<< <<"\n">> >>), Elem(<< <<"a">>, <<"b", " ">> >>)}

DetailBodies ==
  {[title |-> t, acronym |-> a, tables |-> tb, div |-> d] :
     t \in TitleElems, a \in AcronymSpans, tb \in TableSets, d \in DivElems}

InitParse ==
  /\ pc = "parse_cfp_detail_page"
  /\ response \in {[status |-> HttpOk, body |-> b] : b \in DetailBodies}
  /\ file0 = NoFile
  /\ file = file0
  /\ total_pages = 0
  /\ page = 0
  /\ detail_urls = {}
  /\ evaluated_results = <<>>
  /\ cfp = UnsetCfp
  /\ evaluation = UnsetEvaluation
  /\ snapshot = <<>>
  /\ trace = <<>>
  /\ qualifying = 0
  /\ phrase = -1

\* Lines 130-171.
ParseDetail ==
  /\ pc = "parse_cfp_detail_page"
  /\ cfp' = parse_cfp_detail_page(response.body)
  /\ pc' = "parsed"
  /\ UNCHANGED <<file, file0, total_pages, page, detail_urls, evaluated_results,
                 response, evaluation, snapshot, trace, qualifying, phrase>>

NextParse == ParseDetail

SpecParse == InitParse /\ [][NextParse]_vars

(***************************************************************************)
(* Properties.                                                             *)
(***************************************************************************)
Ended == pc \in {"done", "returned", "aborted"}

Writes == EventsOf(trace, "write")

\* The tabular serialization of a sequence of records: the header row and
\* one row per record, in the column order Title .. Justification.
ExpectedCsv(results) ==
  [exists |-> TRUE,
   header |-> <<"Title", "Acronym", "When", "Where", "Deadline", "Score",
                "Justification">>,
   rows |-> [i \in 1..Len(results) |->
               <<results[i].Title, results[i].Acronym, results[i].When,
                 results[i].Where, results[i].Deadline, results[i].Score,
                 results[i].Justification>>]]

\* The events of page k of kind e.
PageEvents(e, k) == {i \in EventsOf(trace, e) : trace[i].page = k}

\* The number of listing requests up to position i of the trace.
ListingsUpTo(i) == Cardinality({j \in EventsOf(trace, "listing") : j <= i})

\* Page k has been left by the loop of main.
PageCompleted(k) == k < page \/ (k = page /\ pc \in {"page_loop", "final", "done"})

\* C1 as stated: once a page has been completed (or the run is done), an
\* output file that exists holds the serialization of the sequence as it
\* stood at the end of the most recently completed page.
C1_FileIsSnapshot ==
  (file.exists /\ (EventsOf(trace, "flush") # {} \/ pc = "done"))
    => file = ExpectedCsv(snapshot)

\* C1 as amended: if the sequence as it stood at the end of the most recently
\* completed page (or at the final save) is not empty, the output file holds
\* its serialization; if it is empty, the output file is what it was before
\* the run, absent or with its earlier content.
C1_FileIsSnapshotOrUntouched ==
  IF snapshot # <<>> THEN file = ExpectedCsv(snapshot) ELSE file = file0

C1_Witness ==
  /\ pc = "url_loop"
  /\ page = 2
  /\ file0 = StaleFile
  /\ snapshot # <<>>
  /\ Len(evaluated_results) > Len(snapshot)
  /\ file = ExpectedCsv(snapshot)

\* C2 as stated: a record is appended exactly for the URLs whose extraction
\* and scoring succeeded with a score > 5 (the sequence is as long as the
\* number of such pairs and every record has Score > 5), and after the run
\* the output file has no more rows than there were such pairs.
C2_AppendedIffAboveFive ==
  /\ Len(evaluated_results) = qualifying
  /\ \A i \in 1..Len(evaluated_results) : evaluated_results[i].Score > 5
  /\ Ended => Len(file.rows) <= qualifying

\* C2 as amended: the same, the bound on the rows holding after a run that
\* wrote the output file.
C2_AppendedIffAboveFiveWritten ==
  /\ Len(evaluated_results) = qualifying
  /\ \A i \in 1..Len(evaluated_results) : evaluated_results[i].Score > 5
  /\ (Ended /\ Writes # {}) => Len(file.rows) <= qualifying

C2_Witness ==
  /\ pc = "done"
  /\ file0 = StaleFile
  /\ evaluation.score = 5
  /\ Cardinality(EventsOf(trace, "score")) = 3
  /\ qualifying = 1
  /\ Len(file.rows) = 1

\* A step in which the except clause of one URL logged an error.
ItemErrorStep ==
  /\ Len(trace') > Len(trace)
  /\ trace'[Len(trace')].ev = "log_error"
  /\ trace'[Len(trace')].page >= 1

C3_ErrorStep ==
  ItemErrorStep =>
    /\ evaluated_results' = evaluated_results
    /\ file' = file
    /\ page' = page
    /\ pc' = "url_loop"
    /\ detail_urls' \subseteq detail_urls

C3_PagesComplete ==
  /\ \A k \in 1..page :
       PageCompleted(k) =>
         /\ Cardinality(PageEvents("listing", k)) = 1
         /\ Cardinality(PageEvents("flush", k)) = 1
         /\ \A l \in PageEvents("listing", k) :
              Cardinality(PageEvents("detail", k)) = trace[l].n
  /\ pc = "done" => page = total_pages
  /\ pc = "aborted" =>
       /\ trace[Len(trace)].ev \in {"get_total_pages", "listing"}
       /\ trace[Len(trace)].n = -1

\* C3: an error raised while extracting or scoring one URL adds no record
\* and leaves the sequence as it was, the loop stays on the page with the
\* remaining URLs, every URL of a completed page was requested, the page's
\* save step ran once, a run that ends normally went through all its pages,
\* and a run only aborts on a failed page-count or listing request.
C3_ItemFailureIsolated == [][C3_ErrorStep]_vars /\ []C3_PagesComplete

C3_Witness ==
  /\ pc = "done"
  /\ page = 2
  /\ \E i \in PageEvents("log_error", 1), j \in PageEvents("detail", 1) :
       /\ i < j
       /\ trace[j].n = 0
  /\ PageEvents("detail", 2) # {}
  /\ evaluated_results # <<>>

\* C4: a detail page answered with an HTTP error status is skipped: the
\* request is followed by the error log line, not by a scoring call.
C4_HttpErrorSkipped ==
  \A d \in EventsOf(trace, "detail") :
    (/\ \A j \in EventsOf(trace, "detail") : j <= d
     /\ response.status = HttpNotFound)
      => /\ d < Len(trace)
         /\ trace[d + 1].ev = "log_error"

\* C5: every score main acts on is in 0..10, and every Score of the
\* sequence and of the file written by the run is in 6..10.
C5_ScoreInRange ==
  /\ evaluation.score \in 0..10
  /\ \A i \in 1..Len(evaluated_results) : evaluated_results[i].Score \in 6..10
  /\ Writes # {} => \A i \in 1..Len(file.rows) : file.rows[i][6] \in 6..10

\* C6: while the sequence is empty the run has written nothing and the
\* output file is what it was before the run; a run that ends with the
\* sequence empty ends on the warning.
C6_EmptyRunWritesNothing ==
  /\ evaluated_results = <<>> => (Writes = {} /\ file = file0)
  /\ (pc = "done" /\ evaluated_results = <<>>) =>
       trace[Len(trace)] = Event("log_warning", 0)

C6_Witness ==
  /\ pc = "done"
  /\ evaluated_results = <<>>
  /\ file0 = StaleFile
  /\ page = 2
  /\ Cardinality(EventsOf(trace, "score")) >= 2

\* C7: when reading the abstract fails, main logs the error and returns:
\* the trace holds that log line and nothing else (no request, no scoring
\* call, no write) and the output file is what it was.
C7_ReadFailureReturns ==
  (trace # <<>> /\ trace[1].ev = "log_error") =>
    /\ pc = "returned"
    /\ Len(trace) = 1
    /\ file = file0

C7_Witness ==
  /\ pc = "returned"
  /\ trace = <<Event("log_error", 0)>>
  /\ file0 = StaleFile

Fields(c) == {c.title, c.acronym, c.when, c.where, c.deadline, c.description}

\* C8: each of the six fields of the CFP that parse_cfp_detail_page returns
\* is a non-empty string, "N/A" when its element is absent.
C8_FieldsNonEmpty ==
  pc = "parsed" =>
    /\ <<>> \notin Fields(cfp)
    /\ ~response.body.title.present => cfp.title = NA
    /\ ~response.body.acronym.present => cfp.acronym = NA
    /\ ~response.body.div.present => cfp.description = NA
    /\ response.body.tables = <<>> =>
         (cfp.when = NA /\ cfp.where = NA /\ cfp.deadline = NA)

\* C9: the page count is the P of the phrase, 1 when the phrase is absent;
\* the i-th listing request is the one of page i; the requests, scoring
\* calls and save step of a page lie between its listing request and the
\* next one; the save step of a page comes once, after all the detail
\* requests of the page, as many as the listing gave; a run that ends
\* normally has requested and saved exactly the pages 1..P.
C9_PagesInOrder ==
  /\ (pc \in {"page_loop", "url_loop", "final", "done"} \/ (pc = "aborted" /\ page >= 1))
       => total_pages = (IF phrase = -1 THEN 1 ELSE phrase)
  /\ \A i \in 1..Len(trace) :
       /\ trace[i].ev = "listing" => trace[i].page = ListingsUpTo(i)
       /\ trace[i].ev \in {"detail", "score", "flush"} => trace[i].page = ListingsUpTo(i)
       /\ trace[i].ev = "flush" =>
            /\ \A j \in PageEvents("detail", trace[i].page) : j < i
            /\ \A j \in PageEvents("flush", trace[i].page) : j = i
            /\ \A l \in PageEvents("listing", trace[i].page) :
                 Cardinality(PageEvents("detail", trace[i].page)) = trace[l].n
       /\ (trace[i].ev = "listing" /\ trace[i].page >= 2) =>
            \E f \in PageEvents("flush", trace[i].page - 1) : f < i
  /\ pc = "done" =>
       /\ {trace[i].page : i \in EventsOf(trace, "listing")} = 1..total_pages
       /\ {trace[i].page : i \in EventsOf(trace, "flush")} = 1..total_pages
       /\ Cardinality(EventsOf(trace, "listing")) = total_pages
       /\ Cardinality(EventsOf(trace, "flush")) = total_pages

C9_Witness ==
  /\ pc = "done"
  /\ phrase = 2
  /\ total_pages = 2
  /\ Cardinality(PageEvents("detail", 1)) = 2
  /\ Cardinality(PageEvents("detail", 2)) = 1

\* C10: a listing request that raised is the last event of the run: the
\* run is aborted, nothing of that page or a later one is requested, scored
\* or written, and the output file holds what the save step of the page
\* before left (the sequence as it stood then, or the file as it was before
\* the run when that sequence was empty).
C10_ListingFailureAborts ==
  \A i \in EventsOf(trace, "listing") :
    trace[i].n = -1 =>
      /\ i = Len(trace)
      /\ pc = "aborted"
      /\ detail_urls = {}
      /\ snapshot = evaluated_results
      /\ file = (IF snapshot # <<>> THEN ExpectedCsv(snapshot) ELSE file0)

C10_Witness ==
  /\ pc = "aborted"
  /\ page = 2
  /\ trace[Len(trace)] = RaisedEvent("listing", 2)
  /\ evaluated_results # <<>>
  /\ file = ExpectedCsv(evaluated_results)
  /\ file0 = StaleFile

====
